---- MODULE Spec2Model ----
(***************************************************************************)
(* Mainframer: push, remote command, pull.                                 *)
(*                                                                         *)
(* Three threads of control are modelled from the source:                  *)
(*   - main (src/src/main.rs): push, execute_remote_command, pull, the two *)
(*     blocking receives and the final aggregation;                        *)
(*   - the remote command thread (src/src/remote_command.rs), the single   *)
(*     producer of the bus;                                                *)
(*   - the pull thread (src/src/sync.rs), pull_serial or pull_parallel.    *)
(* A panic of a spawned thread (unwrap / expect on an Err) ends that thread*)
(* and drops what it owns (the Bus, the Sender); a panic of main ends the  *)
(* process with Rust's panic exit code.                                    *)
(***************************************************************************)
EXTENDS Integers, Sequences, FiniteSets, TLC

\* Number of Empty answers of try_recv after which the model stops polling.
MaxEmpty == 3

\* number_of_readers handed to execute_remote_command by main.
NumberOfReaders == 2

Modes == {"Serial", "Parallel"}
Outcomes == {"Ok", "Err"}

VARIABLES
    mode,                   \* config.pull.mode
    mainPc,                 \* position of main
    exitCode,               \* process exit code, -1 while running
    pushResult,             \* what sync::push returned: None, Ok, Err, Panic
    log,                    \* what main has logged so far
    readers,                \* remote_command_readers: BusReaders main still holds
    remote_command_result,  \* main's local of that name
    pull_result,            \* main's local of that name
    busTail,                \* Bus: number of broadcasts made
    busBuf,                 \* Bus: the broadcast value
    busClosed,              \* Bus: dropped by its owner
    readerHead,             \* BusReader -> number of values it has taken
    rcPc,                   \* position of the remote command thread
    rcResult,               \* what _execute_remote_command returned
    pullPc,                 \* position of the pull thread
    pullReader,             \* the BusReader moved into the pull thread
    pull_finished,          \* everything sent on pull_finished_tx, in order
    rxHead,                 \* how many of them main has received
    txDropped,              \* pull_finished_tx dropped (its thread ended)
    pulls,                  \* the _pull calls made so far, in order
    emptyChecks,            \* number of Empty answers of try_recv
    signal,                 \* what the pull thread's recv / try_recv answered
    lastTry,                \* the latest try_recv answer, busTail and busClosed then
    exec,                   \* one run of execute_rsync / _execute_remote_command
    cfg,                    \* one call of Config::from_file_contents
    perceived,              \* one call of calculate_perceived_pull_duration
    timed                   \* one run of pull_parallel against a clock

vars == << mode, mainPc, exitCode, pushResult, log, readers,
           remote_command_result, pull_result, busTail, busBuf, busClosed,
           readerHead, rcPc, rcResult, pullPc, pullReader, pull_finished,
           rxHead, txDropped, pulls, emptyChecks, signal, lastTry,
           exec, cfg, perceived, timed >>

\* The state of the functions that are checked on their own.
unitVars == << exec, cfg, perceived, timed >>

mainVars == << mainPc, exitCode, pushResult, log, readers,
               remote_command_result, pull_result, rxHead >>
busVars == << busTail, busBuf, busClosed, readerHead >>
rcVars == << rcPc, rcResult >>
pullVars == << pullPc, pullReader, pull_finished, txDropped, pulls,
               emptyChecks, signal, lastTry >>

\* None of the functions checked on their own has been called.
UnitIdle ==
    /\ exec = [pc |-> "idle"]
    /\ cfg = [pc |-> "idle"]
    /\ perceived = [pc |-> "idle"]
    /\ timed = [pc |-> "idle"]

\* The threads before sync::push.
OrchInit ==
    /\ mode \in Modes
    /\ mainPc = "push_spawn"
    /\ exitCode = -1
    /\ pushResult = "None"
    /\ log = << "Pushing" >>
    /\ readers = << >>
    /\ remote_command_result = "None"
    /\ pull_result = "None"
    /\ rxHead = 0
    /\ busTail = 0
    /\ busBuf = "None"
    /\ busClosed = FALSE
    /\ readerHead = << >>
    /\ rcPc = "idle"
    /\ rcResult = "None"
    /\ pullPc = "idle"
    /\ pullReader = 0
    /\ pull_finished = << >>
    /\ txDropped = FALSE
    /\ pulls = << >>
    /\ emptyChecks = 0
    /\ signal = "None"
    /\ lastTry = [answer |-> "None", tail |-> 0, closed |-> FALSE]

Init == OrchInit /\ UnitIdle

\* The threads do not move (the functions checked on their own do).
OrchIdle ==
    UNCHANGED << mode, mainVars, busVars, rcVars, pullVars >>

\* The process is alive: process::exit, a return of main and a panic of main
\* all end every thread.
Alive == mainPc # "exited"

----------------------------------------------------------------------------
(* bus::Bus and bus::BusReader as the program uses them.                    *)

\* Mutant of BusAnswer: a dropped Bus is not noticed by its readers.
BusAnswer_NoDisconnect(r) ==
    IF busTail # readerHead[r] THEN busBuf ELSE "Empty"

\* Mutant of BusAnswer: a dropped Bus answers Disconnected at once.
BusAnswer_GoneFirst(r) ==
    IF busClosed THEN "Disconnected"
    ELSE IF busTail # readerHead[r] THEN busBuf
    ELSE "Empty"

\* BusReader::recv / try_recv: a value this reader has not taken comes
\* first; Disconnected only when there is none and the Bus was dropped;
\* Empty otherwise (recv blocks on it).
BusAnswer(r) ==
    IF busTail # readerHead[r] THEN busBuf
    ELSE IF busClosed THEN "Disconnected"
    ELSE "Empty"

\* The readers' heads after reader r got `answer`: only a value advances it.
HeadAfter(r, answer) ==
    IF answer \in Outcomes
    THEN [readerHead EXCEPT ![r] = @ + 1]
    ELSE readerHead

----------------------------------------------------------------------------
(* main                                                                     *)

\* exit_with_error(message, code): log the message, process::exit(code).
ExitWithError(event, code) ==
    /\ log' = Append(log, event)
    /\ exitCode' = code
    /\ mainPc' = "exited"

\* A panic of the main thread: the process ends with exit code 101.
MainPanic ==
    /\ exitCode' = 101
    /\ mainPc' = "exited"
    /\ UNCHANGED log

\* Mutant of AfterPush: main goes on after a failed push.
AfterPush_GoesOn(out) == "add_rx"

\* Where main goes after sync::push returned `out`.
AfterPush(out) == IF out = "Ok" THEN "add_rx" ELSE "exited"

\* sync::push, execute_rsync: spawn().unwrap() of the rsync process.
PushSpawn ==
    /\ mainPc = "push_spawn"
    /\ \/ /\ mainPc' = "pushing"
          /\ UNCHANGED << exitCode, pushResult, log >>
       \/ /\ pushResult' = "Panic"
          /\ MainPanic
    /\ UNCHANGED << mode, readers, remote_command_result, pull_result, rxHead >>
    /\ UNCHANGED << busVars, rcVars, pullVars >>
    /\ UNCHANGED unitVars

\* The log line for a push result.
PushEvent(res) == IF res = "Err" THEN "PushFailed" ELSE "PushDone"

\* sync::push returns and main matches on the result: Err is
\* exit_with_error(.., 1), Ok goes on to log that the command is executed.
PushReturn ==
    /\ mainPc = "pushing"
    /\ \E out \in Outcomes :
          /\ pushResult' = out
          /\ log' = IF AfterPush(out) = "exited"
                    THEN Append(log, PushEvent(out))
                    ELSE log \o << PushEvent(out), "Executing" >>
          /\ mainPc' = AfterPush(out)
          /\ exitCode' = IF AfterPush(out) = "exited" THEN 1 ELSE exitCode
    /\ UNCHANGED << mode, readers, remote_command_result, pull_result, rxHead >>
    /\ UNCHANGED << busVars, rcVars, pullVars >>
    /\ UNCHANGED unitVars

\* sync::push panics while copying the rsync output (io::copy .expect).
PushCopyPanic ==
    /\ mainPc = "pushing"
    /\ pushResult' = "Panic"
    /\ MainPanic
    /\ UNCHANGED << mode, readers, remote_command_result, pull_result, rxHead >>
    /\ UNCHANGED << busVars, rcVars, pullVars >>
    /\ UNCHANGED unitVars

\* execute_remote_command: readers.push(bus.add_rx()), once per reader.
AddRx ==
    /\ mainPc = "add_rx"
    /\ Len(readers) < NumberOfReaders
    /\ readers' = Append(readers, Len(readerHead) + 1)
    /\ readerHead' = Append(readerHead, busTail)
    /\ UNCHANGED << mode, mainPc, exitCode, pushResult, log,
                    remote_command_result, pull_result, rxHead >>
    /\ UNCHANGED << busTail, busBuf, busClosed, rcVars, pullVars >>
    /\ UNCHANGED unitVars

\* Mutant of SpawnRemoteCommand: the producer is spawned before the readers
\* are registered.
SpawnRemoteCommand_First ==
    /\ mainPc = "add_rx"
    /\ \/ /\ rcPc = "idle"
          /\ rcPc' = "spawn"
          /\ UNCHANGED mainPc
       \/ /\ rcPc # "idle"
          /\ Len(readers) = NumberOfReaders
          /\ mainPc' = "pull"
          /\ UNCHANGED rcPc
    /\ UNCHANGED << mode, exitCode, pushResult, log, readers,
                    remote_command_result, pull_result, rxHead, rcResult >>
    /\ UNCHANGED << busVars, pullVars, unitVars >>

\* execute_remote_command: thread::spawn of the producer, return readers.
SpawnRemoteCommand ==
    /\ mainPc = "add_rx"
    /\ Len(readers) = NumberOfReaders
    /\ rcPc' = "spawn"
    /\ mainPc' = "pull"
    /\ UNCHANGED << mode, exitCode, pushResult, log, readers,
                    remote_command_result, pull_result, rxHead, rcResult >>
    /\ UNCHANGED << busVars, pullVars >>
    /\ UNCHANGED unitVars

\* Mutant of PullEntry: Parallel too starts by waiting for the result.
PullEntry_Waits(m) == "s_recv"

\* The first position of the pull thread for a pull mode.
PullEntry(m) == IF m = "Serial" THEN "s_recv" ELSE "p_pull"

\* sync::pull: remote_command_readers.pop() moves into the spawned thread.
StartPull ==
    /\ mainPc = "pull"
    /\ pullReader' = readers[Len(readers)]
    /\ readers' = SubSeq(readers, 1, Len(readers) - 1)
    /\ pullPc' = PullEntry(mode)
    /\ mainPc' = "recv_remote"
    /\ UNCHANGED << mode, exitCode, pushResult, log, remote_command_result,
                    pull_result, rxHead, pull_finished, txDropped,
                    pulls, emptyChecks, signal, lastTry >>
    /\ UNCHANGED << busVars, rcVars >>
    /\ UNCHANGED unitVars

\* The log line for a remote command result.
ExecEvent(res) == IF res = "Err" THEN "ExecFailed" ELSE "ExecDone"

\* remote_command_readers.pop().unwrap().recv().unwrap(), then the log of
\* the progress transition.
MainRecvRemote ==
    /\ mainPc = "recv_remote"
    /\ LET r == readers[Len(readers)]
           answer == BusAnswer(r)
       IN  /\ answer # "Empty"
           /\ readers' = SubSeq(readers, 1, Len(readers) - 1)
           /\ readerHead' = HeadAfter(r, answer)
           /\ IF answer \in Outcomes
              THEN /\ remote_command_result' = answer
                   /\ log' = log \o << ExecEvent(answer), "Pulling" >>
                   /\ mainPc' = "recv_pull"
                   /\ UNCHANGED exitCode
              ELSE /\ MainPanic
                   /\ UNCHANGED remote_command_result
    /\ UNCHANGED << mode, pushResult, pull_result, rxHead >>
    /\ UNCHANGED << busTail, busBuf, busClosed, rcVars, pullVars >>
    /\ UNCHANGED unitVars

\* The log line for a pull result.
PullEvent(res) == IF res = "Err" THEN "PullFailed" ELSE "PullDone"

\* pull_finished_rx.recv().expect(..), then the log of the pull result.
MainRecvPull ==
    /\ mainPc = "recv_pull"
    /\ \/ /\ rxHead < Len(pull_finished)
          /\ pull_result' = pull_finished[rxHead + 1]
          /\ rxHead' = rxHead + 1
          /\ log' = Append(log, PullEvent(pull_finished[rxHead + 1]))
          /\ mainPc' = "report"
          /\ UNCHANGED exitCode
       \/ /\ rxHead = Len(pull_finished)
          /\ txDropped
          /\ MainPanic
          /\ UNCHANGED << pull_result, rxHead >>
    /\ UNCHANGED << mode, pushResult, readers, remote_command_result >>
    /\ UNCHANGED << busVars, rcVars, pullVars >>
    /\ UNCHANGED unitVars

\* remote_command_result.is_err() || pull_result.is_err()
RunFailed(rc, pl) == rc = "Err" \/ pl = "Err"

\* The final aggregation: exit_with_error(Failure, 1) or Success and return.
MainReport ==
    /\ mainPc = "report"
    /\ IF RunFailed(remote_command_result, pull_result)
       THEN ExitWithError("Failure", 1)
       ELSE /\ log' = Append(log, "Success")
            /\ exitCode' = 0
            /\ mainPc' = "exited"
    /\ UNCHANGED << mode, pushResult, readers, remote_command_result,
                    pull_result, rxHead >>
    /\ UNCHANGED << busVars, rcVars, pullVars >>
    /\ UNCHANGED unitVars

----------------------------------------------------------------------------
(* The remote command thread: bus.broadcast(_execute_remote_command(..))    *)

\* _execute_remote_command: spawn().unwrap() of the ssh process. A panic
\* unwinds the closure and drops the Bus it owns.
RemoteSpawn ==
    /\ Alive
    /\ rcPc = "spawn"
    /\ \/ /\ rcPc' = "running"
          /\ UNCHANGED busClosed
       \/ /\ rcPc' = "panicked"
          /\ busClosed' = TRUE
    /\ UNCHANGED << mode, mainVars, busTail, busBuf, readerHead, rcResult,
                    pullVars >>
    /\ UNCHANGED unitVars

\* io::copy(..).expect(..) fails while the ssh process runs.
RemoteCopyPanic ==
    /\ Alive
    /\ rcPc = "running"
    /\ rcPc' = "panicked"
    /\ busClosed' = TRUE
    /\ UNCHANGED << mode, mainVars, busTail, busBuf, readerHead, rcResult,
                    pullVars >>
    /\ UNCHANGED unitVars

\* process.wait(): the ssh process has exited; Ok on success, Err on a
\* nonzero exit status or a failed wait.
RemoteWait ==
    /\ Alive
    /\ rcPc = "running"
    /\ \E out \in Outcomes : rcResult' = out
    /\ rcPc' = "returned"
    /\ UNCHANGED << mode, mainVars, busVars, pullVars >>
    /\ UNCHANGED unitVars

\* bus.broadcast(result): the one publish.
Broadcast ==
    /\ Alive
    /\ rcPc = "returned"
    /\ busBuf' = rcResult
    /\ busTail' = busTail + 1
    /\ rcPc' = "broadcast"
    /\ UNCHANGED << mode, mainVars, busClosed, readerHead, rcResult, pullVars >>
    /\ UNCHANGED unitVars

\* The closure returns: the Bus is dropped.
RemoteThreadEnd ==
    /\ Alive
    /\ rcPc = "broadcast"
    /\ rcPc' = "done"
    /\ busClosed' = TRUE
    /\ UNCHANGED << mode, mainVars, busTail, busBuf, readerHead, rcResult,
                    pullVars >>
    /\ UNCHANGED unitVars

----------------------------------------------------------------------------
(* The pull thread: pull_serial or pull_parallel                            *)

\* One call of _pull, as it starts.
PullCall(kind) ==
    [ kind |-> kind,
      afterPublish |-> busTail > 0,
      afterSignal |-> signal \in Outcomes,
      rcRunning |-> rcPc \in {"spawn", "running"},
      result |-> "Running" ]

\* The calls made so far with the latest one's result set.
Returned(out) == [pulls EXCEPT ![Len(pulls)].result = out]

\* Mutant of PullPanic: the Sender outlives the panicked thread.
PullPanic_KeepsSender ==
    /\ pullPc' = "panicked"
    /\ UNCHANGED txDropped

\* A panic of the pull thread: the closure unwinds, the Sender is dropped.
PullPanic ==
    /\ pullPc' = "panicked"
    /\ txDropped' = TRUE

\* pull_serial: remote_command_finished_rx.recv().expect(..); the value is
\* not looked at.
SerialRecv ==
    /\ Alive
    /\ pullPc = "s_recv"
    /\ LET answer == BusAnswer(pullReader)
       IN  /\ answer # "Empty"
           /\ signal' = answer
           /\ readerHead' = HeadAfter(pullReader, answer)
           /\ IF answer \in Outcomes
              THEN /\ pullPc' = "s_pull"
                   /\ UNCHANGED txDropped
              ELSE PullPanic
    /\ UNCHANGED << mode, mainVars, busTail, busBuf, busClosed, rcVars,
                    pullReader, pull_finished, pulls, emptyChecks, lastTry >>
    /\ UNCHANGED unitVars

\* The kind of _pull call made at a position of the pull thread.
KindAt(pc) ==
    CASE pc = "s_pull" -> "serial"
      [] pc = "p_pull" -> "periodic"
      [] pc = "f_pull" -> "final"

\* Mutant of RunningAt: the periodic _pull is not waited for.
RunningAt_NoWait(pc) ==
    CASE pc = "s_pull" -> "s_pulling"
      [] pc = "p_pull" -> "p_pull"
      [] pc = "f_pull" -> "f_pulling"

\* The position while that call runs.
RunningAt(pc) ==
    CASE pc = "s_pull" -> "s_pulling"
      [] pc = "p_pull" -> "p_pulling"
      [] pc = "f_pull" -> "f_pulling"

\* _pull, execute_rsync: spawn().unwrap() of the rsync process.
PullSpawn ==
    /\ Alive
    /\ pullPc \in {"s_pull", "p_pull", "f_pull"}
    /\ \/ /\ pulls' = Append(pulls, PullCall(KindAt(pullPc)))
          /\ pullPc' = RunningAt(pullPc)
          /\ UNCHANGED txDropped
       \/ /\ pulls' = Append(pulls, [PullCall(KindAt(pullPc)) EXCEPT !.result = "Panic"])
          /\ PullPanic
    /\ UNCHANGED << mode, mainVars, busVars, rcVars, pullReader, pull_finished,
                    emptyChecks, signal, lastTry >>
    /\ UNCHANGED unitVars

\* _pull panics while copying the rsync output (io::copy .expect).
PullCopyPanic ==
    /\ Alive
    /\ pullPc \in {"s_pulling", "p_pulling", "f_pulling"}
    /\ pulls' = Returned("Panic")
    /\ PullPanic
    /\ UNCHANGED << mode, mainVars, busVars, rcVars, pullReader, pull_finished,
                    emptyChecks, signal, lastTry >>
    /\ UNCHANGED unitVars

\* pull_serial: pull_finished_tx.send(_pull(..)).
SerialPullReturn ==
    /\ Alive
    /\ pullPc = "s_pulling"
    /\ \E out \in Outcomes :
          /\ pulls' = Returned(out)
          /\ pull_finished' = Append(pull_finished, out)
    /\ pullPc' = "ending"
    /\ UNCHANGED << mode, mainVars, busVars, rcVars, pullReader, txDropped,
                    emptyChecks, signal, lastTry >>
    /\ UNCHANGED unitVars

\* Mutant of AfterPeriodicPull: the loop goes on after a failed pull.
AfterPeriodicPull_Retries(out) == "p_check"

\* pull_parallel: where the loop goes after a periodic _pull returned `out`.
AfterPeriodicPull(out) == IF out = "Err" THEN "ending" ELSE "p_check"

\* Mutant of SentAfterPeriodicPull: every periodic result is sent.
SentAfterPeriodicPull_Every(out) == << out >>

\* pull_parallel: what is sent after a periodic _pull returned `out`.
SentAfterPeriodicPull(out) == IF out = "Err" THEN << "Err" >> ELSE << >>

\* pull_parallel: a periodic _pull returns; Err is sent and breaks the loop.
PeriodicPullReturn ==
    /\ Alive
    /\ pullPc = "p_pulling"
    /\ \E out \in Outcomes :
          /\ pulls' = Returned(out)
          /\ pull_finished' = pull_finished \o SentAfterPeriodicPull(out)
          /\ pullPc' = AfterPeriodicPull(out)
    /\ UNCHANGED << mode, mainVars, busVars, rcVars, pullReader, txDropped,
                    emptyChecks, signal, lastTry >>
    /\ UNCHANGED unitVars

\* Mutant of AfterTryRecv: Empty polls again without another pull.
AfterTryRecv_PollsOnly(answer) ==
    CASE answer = "Disconnected" -> "ending"
      [] answer = "Empty" -> "p_check"
      [] OTHER -> "f_pull"

\* Mutant of AfterTryRecv: a failed remote command ends the loop at once.
AfterTryRecv_ErrEnds(answer) ==
    CASE answer \in {"Disconnected", "Err"} -> "ending"
      [] answer = "Empty" -> "p_sleep"
      [] OTHER -> "f_pull"

\* Mutant of AfterTryRecv: the loop goes on after the Bus is gone.
AfterTryRecv_GoneRetries(answer) ==
    CASE answer \in {"Disconnected", "Empty"} -> "p_sleep"
      [] OTHER -> "f_pull"

\* Mutant of AfterTryRecv: no final pull after the result was taken.
AfterTryRecv_NoFinal(answer) ==
    CASE answer = "Empty" -> "p_sleep"
      [] OTHER -> "ending"

\* pull_parallel: where the loop goes after try_recv answered.
AfterTryRecv(answer) ==
    CASE answer = "Disconnected" -> "ending"
      [] answer = "Empty" -> "p_sleep"
      [] OTHER -> "f_pull"

\* pull_parallel: remote_command_finished_signal.try_recv().
TryRecv ==
    /\ Alive
    /\ pullPc = "p_check"
    /\ LET answer == BusAnswer(pullReader)
       IN  /\ answer = "Empty" => emptyChecks < MaxEmpty
           /\ lastTry' = [answer |-> answer, tail |-> busTail,
                        closed |-> busClosed]
           /\ signal' = answer
           /\ readerHead' = HeadAfter(pullReader, answer)
           /\ emptyChecks' = IF answer = "Empty" THEN emptyChecks + 1
                             ELSE emptyChecks
           /\ pullPc' = AfterTryRecv(answer)
    /\ UNCHANGED << mode, mainVars, busTail, busBuf, busClosed, rcVars,
                    pullReader, pull_finished, txDropped, pulls >>
    /\ UNCHANGED unitVars

\* pull_parallel: thread::sleep(pause_between_pulls) is over.
Wake ==
    /\ Alive
    /\ pullPc = "p_sleep"
    /\ pullPc' = "p_pull"
    /\ UNCHANGED << mode, mainVars, busVars, rcVars, pullReader, pull_finished,
                    txDropped, pulls, emptyChecks, signal, lastTry >>
    /\ UNCHANGED unitVars

\* pull_parallel: the final _pull returns; its result is sent either way.
FinalPullReturn ==
    /\ Alive
    /\ pullPc = "f_pulling"
    /\ \E out \in Outcomes :
          /\ pulls' = Returned(out)
          /\ pull_finished' = Append(pull_finished, out)
    /\ pullPc' = "ending"
    /\ UNCHANGED << mode, mainVars, busVars, rcVars, pullReader, txDropped,
                    emptyChecks, signal, lastTry >>
    /\ UNCHANGED unitVars

\* The closure of the pull thread returns: the Sender is dropped.
PullThreadEnd ==
    /\ Alive
    /\ pullPc = "ending"
    /\ pullPc' = "done"
    /\ txDropped' = TRUE
    /\ UNCHANGED << mode, mainVars, busVars, rcVars, pullReader, pull_finished,
                    pulls, emptyChecks, signal, lastTry >>
    /\ UNCHANGED unitVars

----------------------------------------------------------------------------
Next ==
    \/ PushSpawn
    \/ PushReturn
    \/ PushCopyPanic
    \/ AddRx
    \/ SpawnRemoteCommand
    \/ StartPull
    \/ MainRecvRemote
    \/ MainRecvPull
    \/ MainReport
    \/ RemoteSpawn
    \/ RemoteCopyPanic
    \/ RemoteWait
    \/ Broadcast
    \/ RemoteThreadEnd
    \/ SerialRecv
    \/ PullSpawn
    \/ PullCopyPanic
    \/ SerialPullReturn
    \/ PeriodicPullReturn
    \/ TryRecv
    \/ Wake
    \/ FinalPullReturn
    \/ PullThreadEnd

\* The steps of each thread.
MainStep ==
    \/ PushSpawn \/ PushReturn \/ PushCopyPanic \/ AddRx \/ SpawnRemoteCommand
    \/ StartPull \/ MainRecvRemote \/ MainRecvPull \/ MainReport

RemoteStep ==
    \/ RemoteSpawn \/ RemoteCopyPanic \/ RemoteWait \/ Broadcast
    \/ RemoteThreadEnd

PullStep ==
    \/ SerialRecv \/ PullSpawn \/ PullCopyPanic \/ SerialPullReturn
    \/ PeriodicPullReturn \/ TryRecv \/ Wake \/ FinalPullReturn
    \/ PullThreadEnd

Spec == Init /\ [][Next]_vars

\* Every thread that can take a step eventually takes one: the three are OS
\* threads, and every delegate process that was launched exits.
FairSpec ==
    /\ Init /\ [][Next]_vars
    /\ WF_vars(MainStep)
    /\ WF_vars(RemoteStep)
    /\ WF_vars(PullStep)

----------------------------------------------------------------------------
(* calculate_perceived_pull_duration (sync.rs), durations in milliseconds   *)

MaxDuration == 10

Durations == 0..MaxDuration

\* Duration::checked_sub: None when the result would be negative.
checked_sub(a, b) ==
    IF a >= b THEN [some |-> TRUE, duration |-> a - b]
              ELSE [some |-> FALSE, duration |-> 0]

\* Mutant of calculate_perceived_pull_duration: plain subtraction.
calculate_perceived_pull_duration_Unclamped(total_pull_duration, remote_command_duration) ==
    total_pull_duration - remote_command_duration

calculate_perceived_pull_duration(total_pull_duration, remote_command_duration) ==
    LET sub == checked_sub(total_pull_duration, remote_command_duration)
    IN  IF sub.some THEN sub.duration ELSE 0

PerceivedInit ==
    /\ OrchInit
    /\ exec = [pc |-> "idle"]
    /\ cfg = [pc |-> "idle"]
    /\ perceived = [pc |-> "idle"]
    /\ timed = [pc |-> "idle"]

\* A call with two durations.
PerceivedCall ==
    /\ perceived.pc = "idle"
    /\ \E total \in Durations, rc \in Durations :
          perceived' = [pc |-> "called", total_pull_duration |-> total,
                        remote_command_duration |-> rc]
    /\ UNCHANGED << exec, cfg, timed >>
    /\ OrchIdle

\* The call returns.
PerceivedReturn ==
    /\ perceived.pc = "called"
    /\ perceived' = [pc |-> "returned",
                     total_pull_duration |-> perceived.total_pull_duration,
                     remote_command_duration |->
                         perceived.remote_command_duration,
                     duration |-> calculate_perceived_pull_duration(
                                      perceived.total_pull_duration,
                                      perceived.remote_command_duration)]
    /\ UNCHANGED << exec, cfg, timed >>
    /\ OrchIdle

PerceivedNext == PerceivedCall \/ PerceivedReturn

PerceivedSpec == PerceivedInit /\ [][PerceivedNext]_vars

----------------------------------------------------------------------------
(* Config::from_file_contents (config.rs): the two compression levels       *)

\* How far beyond the i8 range the integers written in the file go.
Beyond == 2

\* compression: i8
I8Min == -128

I8Max == 127

I8 == I8Min..I8Max

\* The integers a configuration file gives as a compression level.
CompressionInputs == (I8Min - Beyond)..(I8Max + Beyond)

\* serde_yaml::from_str::<Config>: an integer that does not fit the i8 field
\* is a deserialisation error.
from_str(push, pull) ==
    IF push \in I8 /\ pull \in I8
    THEN [ok |-> TRUE, push |-> push, pull |-> pull]
    ELSE [ok |-> FALSE, push |-> 0, pull |-> 0]

valid_pull_compression_range(config) == config.pull \in 1..9

valid_push_compression_range(config) == config.push \in 1..9

\* The Result of from_file_contents: Ok(config), or Err with serde's message
\* or with the range message for a field and its value.
from_file_contents(push, pull) ==
    LET config == from_str(push, pull)
    IN  IF ~ config.ok
        THEN [ok |-> FALSE, message |-> "deserialize", field |-> "none",
              value |-> 0, push |-> 0, pull |-> 0]
        ELSE IF valid_pull_compression_range(config)
                /\ valid_push_compression_range(config)
        THEN [ok |-> TRUE, message |-> "none", field |-> "none",
              value |-> 0, push |-> config.push, pull |-> config.pull]
        ELSE IF ~ valid_pull_compression_range(config)
        THEN [ok |-> FALSE, message |-> "range", field |-> "pull",
              value |-> config.pull, push |-> 0, pull |-> 0]
        ELSE [ok |-> FALSE, message |-> "range", field |-> "push",
              value |-> config.push, push |-> 0, pull |-> 0]

ConfigInit ==
    /\ OrchInit
    /\ exec = [pc |-> "idle"]
    /\ perceived = [pc |-> "idle"]
    /\ timed = [pc |-> "idle"]
    /\ cfg = [pc |-> "idle"]

\* A configuration file with the two levels is read.
ConfigRead ==
    /\ cfg.pc = "idle"
    /\ \E push \in CompressionInputs, pull \in CompressionInputs :
          cfg' = [pc |-> "read", push |-> push, pull |-> pull]
    /\ UNCHANGED << exec, perceived, timed >>
    /\ OrchIdle

\* from_file_contents returns.
ConfigParse ==
    /\ cfg.pc = "read"
    /\ cfg' = [pc |-> "parsed", push |-> cfg.push, pull |-> cfg.pull,
               result |-> from_file_contents(cfg.push, cfg.pull)]
    /\ UNCHANGED << exec, perceived, timed >>
    /\ OrchIdle

ConfigNext == ConfigRead \/ ConfigParse

ConfigSpec == ConfigInit /\ [][ConfigNext]_vars

----------------------------------------------------------------------------
(* execute_rsync (sync.rs) and the delegate process it runs                  *)

\* The chunks a pipe holds before a write to it blocks.
PipeCap == 2

\* The delegate writes up to one chunk more than a pipe holds.
MaxChunks == PipeCap + 1

ExitCodes == {0, 1, 23}

\* match result.wait_with_output(): stdout and stderr are what the Output
\* carries, in chunks.
MatchWaitWithOutput(waitOk, signalled, code, stdout, stderr) ==
    IF ~ waitOk
    THEN [ok |-> FALSE, message |-> "Generic rsync error.",
          exit_code |-> 0, stdout |-> 0, stderr |-> 0]
    ELSE IF signalled
    THEN [ok |-> FALSE, message |-> "rsync was terminated.",
          exit_code |-> 0, stdout |-> 0, stderr |-> 0]
    ELSE IF code = 0
    THEN [ok |-> TRUE, message |-> "none",
          exit_code |-> 0, stdout |-> 0, stderr |-> 0]
    ELSE [ok |-> FALSE, message |-> "rsync exit code",
          exit_code |-> code, stdout |-> stdout, stderr |-> stderr]

ExecInit ==
    /\ OrchInit
    /\ cfg = [pc |-> "idle"]
    /\ perceived = [pc |-> "idle"]
    /\ timed = [pc |-> "idle"]
    /\ exec = [pc |-> "idle"]

ExecFrozen ==
    /\ UNCHANGED << cfg, perceived, timed >>
    /\ OrchIdle

\* A call of execute_rsync: whether the process can be launched, what the
\* delegate will write and how it ends, whether waiting on it works.
ExecCall ==
    /\ exec.pc = "idle"
    /\ \E launch \in BOOLEAN, nOut \in 0..MaxChunks, nErr \in 0..MaxChunks,
          code \in ExitCodes, signalled \in BOOLEAN, waitOk \in BOOLEAN :
          exec' = [pc |-> "spawn", launch |-> launch,
                   nOut |-> nOut, nErr |-> nErr, code |-> code,
                   signalled |-> signalled, waitOk |-> waitOk,
                   child |-> "none", toOut |-> nOut, toErr |-> nErr,
                   outPipe |-> 0, errPipe |-> 0,
                   loggedOut |-> 0, loggedErr |-> 0,
                   takenOut |-> FALSE, takenErr |-> FALSE,
                   capturedOut |-> 0, capturedErr |-> 0]
    /\ ExecFrozen

\* rsync.stdout(piped).stderr(piped).spawn().unwrap()
ExecSpawn ==
    /\ exec.pc = "spawn"
    /\ exec' = IF exec.launch
               THEN [exec EXCEPT !.pc = "copy_out", !.child = "running",
                                 !.takenOut = TRUE]
               ELSE [exec EXCEPT !.pc = "panicked"]
    /\ ExecFrozen

\* The delegate writes a chunk to its stdout pipe, if the pipe has room.
DelegateWriteOut ==
    /\ exec.pc # "idle"
    /\ exec.child = "running"
    /\ exec.toOut > 0
    /\ exec.outPipe < PipeCap
    /\ exec' = [exec EXCEPT !.toOut = @ - 1, !.outPipe = @ + 1]
    /\ ExecFrozen

\* The delegate writes a chunk to its stderr pipe, if the pipe has room.
DelegateWriteErr ==
    /\ exec.pc # "idle"
    /\ exec.child = "running"
    /\ exec.toErr > 0
    /\ exec.errPipe < PipeCap
    /\ exec' = [exec EXCEPT !.toErr = @ - 1, !.errPipe = @ + 1]
    /\ ExecFrozen

\* The delegate has written everything and exits: both pipes are closed.
DelegateExit ==
    /\ exec.pc # "idle"
    /\ exec.child = "running"
    /\ exec.toOut = 0
    /\ exec.toErr = 0
    /\ exec' = [exec EXCEPT !.child = "exited"]
    /\ ExecFrozen

\* io::copy(stdout, message): one read, logged by Message::write.
ExecReadOut ==
    /\ exec.pc = "copy_out"
    /\ exec.outPipe > 0
    /\ exec' = [exec EXCEPT !.outPipe = @ - 1, !.loggedOut = @ + 1]
    /\ ExecFrozen

\* io::copy(stdout, message) ends at end of file; stderr is taken next.
ExecEofOut ==
    /\ exec.pc = "copy_out"
    /\ exec.outPipe = 0
    /\ exec.child = "exited"
    /\ exec' = [exec EXCEPT !.pc = "copy_err", !.takenErr = TRUE]
    /\ ExecFrozen

\* io::copy(stderr, err_message): one read, logged.
ExecReadErr ==
    /\ exec.pc = "copy_err"
    /\ exec.errPipe > 0
    /\ exec' = [exec EXCEPT !.errPipe = @ - 1, !.loggedErr = @ + 1]
    /\ ExecFrozen

\* io::copy(stderr, err_message) ends at end of file.
ExecEofErr ==
    /\ exec.pc = "copy_err"
    /\ exec.errPipe = 0
    /\ exec.child = "exited"
    /\ exec' = [exec EXCEPT !.pc = "wait"]
    /\ ExecFrozen

\* io::copy returns Err: expect panics.
ExecCopyPanic ==
    /\ exec.pc \in {"copy_out", "copy_err"}
    /\ exec' = [exec EXCEPT !.pc = "panicked"]
    /\ ExecFrozen

\* What wait_with_output collects from a stream: nothing when the stream
\* was taken out of the Child before.
Collected(taken, pipe) == IF taken THEN 0 ELSE pipe

\* result.wait_with_output() and the match on it.
ExecWait ==
    /\ exec.pc = "wait"
    /\ exec.child = "exited"
    /\ LET out == Collected(exec.takenOut, exec.outPipe)
           err == Collected(exec.takenErr, exec.errPipe)
       IN  exec' = [pc |-> "returned", launch |-> exec.launch,
                    nOut |-> exec.nOut, nErr |-> exec.nErr,
                    code |-> exec.code, signalled |-> exec.signalled,
                    waitOk |-> exec.waitOk, child |-> exec.child,
                    toOut |-> exec.toOut, toErr |-> exec.toErr,
                    outPipe |-> exec.outPipe, errPipe |-> exec.errPipe,
                    loggedOut |-> exec.loggedOut,
                    loggedErr |-> exec.loggedErr,
                    takenOut |-> exec.takenOut, takenErr |-> exec.takenErr,
                    capturedOut |-> out, capturedErr |-> err,
                    result |-> MatchWaitWithOutput(exec.waitOk,
                                   exec.signalled, exec.code, out, err)]
    /\ ExecFrozen

\* The steps that do not end in a panic.
ExecProgress ==
    \/ DelegateWriteOut \/ DelegateWriteErr \/ DelegateExit
    \/ ExecReadOut \/ ExecEofOut \/ ExecReadErr \/ ExecEofErr \/ ExecWait

ExecNext ==
    \/ ExecCall \/ ExecSpawn
    \/ DelegateWriteOut \/ DelegateWriteErr \/ DelegateExit
    \/ ExecReadOut \/ ExecEofOut \/ ExecReadErr \/ ExecEofErr
    \/ ExecCopyPanic \/ ExecWait

ExecSpec == ExecInit /\ [][ExecNext]_vars

----------------------------------------------------------------------------
(* pull_parallel (sync.rs) against a clock: the durations it sends          *)

\* The latest instant of the clock.
MaxTime == 5

Times == 0..MaxTime

\* _pull: the result of a call started at pull_start that ends at now with
\* `out`; the message of an Err is that of call number `attempt`.
PullResult(out, now, pull_start, attempt) ==
    [ok |-> out = "Ok", duration |-> now - pull_start,
     message |-> IF out = "Ok" THEN 0 ELSE attempt]

\* Mutant of SentAfterFinalPull: the final _pull's own result is sent.
SentAfterFinalPull_OwnDuration(res, elapsed, remote_command_duration) == res

\* pull_parallel: what is sent after the final _pull returned res.
SentAfterFinalPull(res, elapsed, remote_command_duration) ==
    [ok |-> res.ok,
     duration |-> calculate_perceived_pull_duration(elapsed,
                                                    remote_command_duration),
     message |-> res.message]

TimedInit ==
    /\ OrchInit
    /\ exec = [pc |-> "idle"]
    /\ cfg = [pc |-> "idle"]
    /\ perceived = [pc |-> "idle"]
    /\ timed = [pc |-> "idle"]

TimedFrozen ==
    /\ UNCHANGED << exec, cfg, perceived >>
    /\ OrchIdle

\* pull_parallel is called: start_time = Instant::now(), thread::spawn.
TimedCall ==
    /\ timed.pc = "idle"
    /\ \E t \in Times :
          timed' = [pc |-> "p_pull", now |-> t, start_time |-> t,
                    pull_start |-> t, attempts |-> 0, empties |-> 0,
                    kind |-> "periodic",
                    published |-> FALSE, closed |-> FALSE,
                    rcOut |-> "None", rcDuration |-> 0,
                    remote_command_duration |-> 0, sent |-> << >>]
    /\ TimedFrozen

\* Time passes while the pull thread runs.
Tick ==
    /\ timed.pc \notin {"idle", "done", "panicked"}
    /\ timed.now < MaxTime
    /\ timed' = [timed EXCEPT !.now = @ + 1]
    /\ TimedFrozen

\* The remote command thread broadcasts its result, Ok or Err, with the
\* duration it measured.
TimedPublish ==
    /\ timed.pc \notin {"idle", "done", "panicked"}
    /\ ~ timed.published
    /\ ~ timed.closed
    /\ \E out \in Outcomes, d \in Times :
          timed' = [timed EXCEPT !.published = TRUE, !.rcOut = out,
                                 !.rcDuration = d]
    /\ TimedFrozen

\* The remote command thread ends, after its broadcast or by a panic.
TimedDrop ==
    /\ timed.pc \notin {"idle", "done", "panicked"}
    /\ ~ timed.closed
    /\ timed' = [timed EXCEPT !.closed = TRUE]
    /\ TimedFrozen

\* _pull starts: start_time = Instant::now() of the call.
TimedPullStart ==
    /\ timed.pc \in {"p_pull", "f_pull"}
    /\ timed' = [timed EXCEPT
                    !.pc = IF timed.pc = "p_pull" THEN "p_pulling"
                           ELSE "f_pulling",
                    !.kind = IF timed.pc = "p_pull" THEN "periodic"
                             ELSE "final",
                    !.pull_start = timed.now,
                    !.attempts = @ + 1]
    /\ TimedFrozen

\* _pull panics (spawn().unwrap(), io::copy(..).expect(..)).
TimedPullPanic ==
    /\ timed.pc \in {"p_pulling", "f_pulling"}
    /\ timed' = [timed EXCEPT !.pc = "panicked"]
    /\ TimedFrozen

\* A periodic _pull returns: Err is sent as it is and breaks the loop.
TimedPeriodicReturn ==
    /\ timed.pc = "p_pulling"
    /\ \E out \in Outcomes :
          LET res == PullResult(out, timed.now, timed.pull_start,
                                timed.attempts)
          IN  timed' = [timed EXCEPT
                           !.pc = IF res.ok THEN "p_check" ELSE "done",
                           !.sent = IF res.ok THEN @ ELSE Append(@, res)]
    /\ TimedFrozen

\* try_recv: the value, Disconnected or Empty.
TimedTryRecv ==
    /\ timed.pc = "p_check"
    /\ IF timed.published
       THEN timed' = [timed EXCEPT
                         !.pc = "f_pull",
                         !.remote_command_duration = timed.rcDuration]
       ELSE IF timed.closed
       THEN timed' = [timed EXCEPT !.pc = "done"]
       ELSE /\ timed.empties < MaxEmpty
            /\ timed' = [timed EXCEPT !.pc = "p_sleep", !.empties = @ + 1]
    /\ TimedFrozen

\* thread::sleep(pause_between_pulls) is over.
TimedWake ==
    /\ timed.pc = "p_sleep"
    /\ timed' = [timed EXCEPT !.pc = "p_pull"]
    /\ TimedFrozen

\* The final _pull returns: its result is sent with the perceived duration.
TimedFinalReturn ==
    /\ timed.pc = "f_pulling"
    /\ \E out \in Outcomes :
          LET res == PullResult(out, timed.now, timed.pull_start,
                                timed.attempts)
          IN  timed' = [timed EXCEPT
                           !.pc = "done",
                           !.sent = Append(@, SentAfterFinalPull(res,
                                        timed.now - timed.start_time,
                                        timed.remote_command_duration))]
    /\ TimedFrozen

TimedNext ==
    \/ TimedCall \/ Tick \/ TimedPublish \/ TimedDrop \/ TimedPullStart
    \/ TimedPullPanic \/ TimedPeriodicReturn \/ TimedTryRecv \/ TimedWake
    \/ TimedFinalReturn

TimedSpec == TimedInit /\ [][TimedNext]_vars

----------------------------------------------------------------------------
(* Properties                                                               *)

\* The latest _pull call (only used where pulls is not empty).
LastPull == pulls[Len(pulls)]

\* The run went past the push and has ended.
RunEnded == mainPc = "exited" /\ pushResult = "Ok"

\* C1: whichever branch ends the pull thread's closure normally (Serial's
\* single pull; Parallel's periodic failure, final pull or producer-gone
\* break), exactly one pull result has been sent on the output channel, and
\* never more than one is sent.
C1_ExactlyOnePullResult ==
    /\ Len(pull_finished) <= 1
    /\ pullPc = "done" => Len(pull_finished) = 1

\* C2: when a run that went past the push has ended, exactly one remote
\* command result has been broadcast and each registered listener has taken
\* exactly one copy of it, the same for both.
C2_ExactlyOneCopyPerListener ==
    RunEnded =>
        /\ busTail = 1
        /\ \A r \in 1..Len(readerHead) : readerHead[r] = 1
        /\ remote_command_result = busBuf
        /\ signal = busBuf

\* C3: no listener has taken a value that was not broadcast, and a try_recv
\* made while nothing was broadcast answered Empty (not-yet-available).
C3_OnlyEmptyBeforePublish ==
    /\ \A r \in 1..Len(readerHead) : readerHead[r] <= busTail
    /\ remote_command_result \in Outcomes =>
          busTail = 1 /\ remote_command_result = rcResult
    /\ signal \in Outcomes => busTail = 1 /\ signal = rcResult
    /\ (lastTry.answer # "None" /\ lastTry.tail = 0) => lastTry.answer = "Empty"

C5_ExitCodeIsConjunction ==
    mainPc = "exited" =>
        /\ exitCode = 0 <=>
              /\ pushResult = "Ok"
              /\ remote_command_result = "Ok"
              /\ pull_result = "Ok"
        /\ ( \/ pushResult = "Err"
             \/ remote_command_result = "Err"
             \/ pull_result = "Err" ) => exitCode = 1

\* C6: in Serial mode a run that went past the push makes exactly one _pull
\* call, started after the pull thread's listener received the remote
\* command result and not while the remote command was running.
C6_SerialExactlyOnePull ==
    /\ mode = "Serial" =>
          \A i \in 1..Len(pulls) :
              /\ i = 1
              /\ pulls[i].afterSignal
              /\ ~ pulls[i].rcRunning
    /\ (mode = "Serial" /\ pullPc \in {"s_pulling"}) => rcPc \notin {"spawn", "running"}
    /\ (mode = "Serial" /\ RunEnded) => Len(pulls) = 1

\* C7: in Parallel mode a periodic _pull that returned Err is the last call
\* ever made, its Err is the one thing sent on the output channel, the loop
\* is left and the listener never takes the remote command result, however
\* the remote command goes on.
C7_PeriodicFailureIsFatal ==
    \A i \in 1..Len(pulls) :
        (pulls[i].kind = "periodic" /\ pulls[i].result = "Err") =>
            /\ i = Len(pulls)
            /\ pull_finished = << "Err" >>
            /\ pullPc \in {"ending", "done"}
            /\ signal \notin Outcomes
            /\ readerHead[pullReader] = 0

\* C7 witness: a periodic pull failed and the remote command was broadcast
\* after the loop had ended.
C7_Witness ==
    /\ Len(pulls) > 1
    /\ LastPull.kind = "periodic"
    /\ LastPull.result = "Err"
    /\ ~ LastPull.afterPublish
    /\ busTail = 1
    /\ pullPc = "done"

\* C8: in Parallel mode, once an Ok pull result is sent, the latest _pull
\* call is the final one, it returned Ok, and it was started when the remote
\* command result was already broadcast.
C8_OkReflectsFinalPull ==
    (mode = "Parallel" /\ Len(pull_finished) > 0 /\ pull_finished[1] = "Ok") =>
        /\ LastPull.kind = "final"
        /\ LastPull.result = "Ok"
        /\ LastPull.afterPublish
        /\ LastPull.afterSignal

\* C8 witness: the Parallel coordinator has sent Ok after periodic pulls
\* that started before the broadcast.
C8_Witness ==
    /\ mode = "Parallel"
    /\ pull_finished = << "Ok" >>
    /\ Len(pulls) > 1
    /\ ~ pulls[1].afterPublish

\* Every _pull call made so far returned Ok.
AllPullsOk == \A i \in 1..Len(pulls) : pulls[i].result = "Ok"

\* C9: in Parallel mode, when the loop has ended with every pull Ok and the
\* result taken after exactly two Empty answers, at least 3 _pull calls
\* were made.
C9_TwoEmptyAtLeastThreePulls ==
    ( /\ mode = "Parallel"
      /\ pullPc \in {"ending", "done"}
      /\ AllPullsOk
      /\ emptyChecks = 2
      /\ signal \in Outcomes ) => Len(pulls) >= 3

\* C9 witness: such a loop has ended.
C9_Witness ==
    /\ mode = "Parallel"
    /\ pullPc = "done"
    /\ AllPullsOk
    /\ emptyChecks = 2
    /\ signal \in Outcomes

\* C10 as stated: whenever the broadcast result is Err and the pull thread
\* has ended normally, Serial made its one pull and Parallel made its final
\* pull; and main reports the overall failure only with a pull result.
C10_ErrAlwaysFinalPull ==
    /\ (pullPc = "done" /\ busBuf = "Err" /\ mode = "Serial") =>
          Len(pulls) = 1 /\ LastPull.afterSignal
    /\ (pullPc = "done" /\ busBuf = "Err" /\ mode = "Parallel") =>
          LastPull.kind = "final"
    /\ (remote_command_result = "Err" /\ exitCode = 1) => pull_result \in Outcomes

\* C10 amended: a pull thread that took an Err result goes on to its pull
\* (Serial's one pull, Parallel's final pull) exactly as for Ok; a Parallel
\* loop that ended normally under an Err broadcast made the final pull
\* unless a periodic pull had failed before it took the result; and main
\* reports the overall failure only with a pull result.
C10_ErrDoesNotShortCircuit ==
    /\ signal = "Err" =>
          \/ pullPc \in {"s_pull", "f_pull"}
          \/ /\ Len(pulls) > 0
             /\ LastPull.afterSignal
             /\ LastPull.kind \in {"serial", "final"}
    /\ (pullPc = "done" /\ busBuf = "Err" /\ mode = "Serial") =>
          Len(pulls) = 1 /\ LastPull.afterSignal
    /\ (pullPc = "done" /\ busBuf = "Err" /\ mode = "Parallel") =>
          \/ LastPull.kind = "final"
          \/ LastPull.kind = "periodic" /\ LastPull.result = "Err"
    /\ (remote_command_result = "Err" /\ exitCode = 1) => pull_result \in Outcomes

\* C10 witness: both threads took an Err result, the final pull was Ok and
\* main reported the overall failure.
C10_Witness ==
    /\ mode = "Parallel"
    /\ signal = "Err"
    /\ remote_command_result = "Err"
    /\ pull_result = "Ok"
    /\ exitCode = 1

\* C11: the Bus is never dropped without a broadcast: whatever goes wrong in
\* the remote command thread, the launch of ssh included, a result is
\* published, and a run whose remote command failed ends with exit code 1.
C11_FailureIsPublished ==
    /\ busClosed => busTail = 1
    /\ rcPc # "panicked"
    /\ (RunEnded /\ rcPc \in {"done", "panicked"} /\ rcResult # "Ok") =>
          exitCode = 1

\* C13: at most one transfer runs at any time: the push has returned before
\* the pull thread exists, and a _pull call is only made when every earlier
\* one has returned.
C13_OneTransferAtATime ==
    /\ mainPc \in {"push_spawn", "pushing"} => pullPc = "idle" /\ pulls = << >>
    /\ pullPc # "idle" => pushResult = "Ok"
    /\ \A i \in 1..Len(pulls) :
          pulls[i].result = "Running" =>
              /\ i = Len(pulls)
              /\ Alive => pullPc \in {"s_pulling", "p_pulling", "f_pulling"}

\* C13 witness: a second _pull runs after the first has returned.
C13_Witness ==
    /\ Len(pulls) >= 2
    /\ pulls[1].result = "Ok"
    /\ LastPull.result = "Running"

\* C14: under fair scheduling the run ends, once the result is broadcast the
\* pull thread leaves its loop (or the process has ended), and a run past
\* the push that ends by main's own exit has received both results.
C14_RunTerminates ==
    /\ <>(mainPc = "exited")
    /\ (busTail = 1) ~> (pullPc \in {"ending", "done", "panicked"} \/ ~ Alive)
    /\ []((mainPc = "exited" /\ pushResult = "Ok" /\ exitCode \in {0, 1}) =>
              (remote_command_result # "None" /\ pull_result # "None"))

\* C14 witness: a Parallel run that polled has ended with success.
C14_Witness ==
    /\ mode = "Parallel"
    /\ mainPc = "exited"
    /\ exitCode = 0
    /\ emptyChecks > 0

\* C16: a pull failure that was sent while the remote command still runs
\* can be received and logged by main at once.
C16_FailureLoggedWhenKnown ==
    ( /\ Alive
      /\ mode = "Parallel"
      /\ rxHead < Len(pull_finished)
      /\ pull_finished[Len(pull_finished)] = "Err"
      /\ rcPc \in {"spawn", "running"} ) => ENABLED MainRecvPull

\* C20: never more than number_of_readers readers are registered, all of
\* them are registered when the producer exists or a value is broadcast,
\* every one was registered before any broadcast, and main gets exactly
\* number_of_readers readers back.
C20_ListenersBeforeProducer ==
    /\ Len(readerHead) <= NumberOfReaders
    /\ rcPc # "idle" => Len(readerHead) = NumberOfReaders
    /\ busTail > 0 => Len(readerHead) = NumberOfReaders
    /\ mainPc = "pull" => Len(readers) = NumberOfReaders
    /\ mainPc = "add_rx" => rcPc = "idle" /\ Len(readers) = Len(readerHead)

\* C20 witness: the producer runs with both readers registered and handed out.
C20_Witness ==
    /\ rcPc = "running"
    /\ Len(readerHead) = NumberOfReaders
    /\ pullReader = NumberOfReaders
    /\ mainPc = "recv_remote"

Max(a, b) == IF a >= b THEN a ELSE b

\* C15: the perceived duration is max(0, total - remote command duration):
\* the difference when total is at least the remote command duration, 0
\* otherwise; never negative, never more than total.
C15_PerceivedIsClampedDifference ==
    perceived.pc = "returned" =>
        LET t == perceived.total_pull_duration
            r == perceived.remote_command_duration
            d == perceived.duration
        IN  /\ d = Max(0, t - r)
            /\ t >= r => d = t - r
            /\ t < r => d = 0
            /\ d >= 0
            /\ d <= t

\* C15 witness: a call whose subtraction would underflow has returned 0.
C15_Witness ==
    /\ perceived.pc = "returned"
    /\ perceived.total_pull_duration > 0
    /\ perceived.total_pull_duration < perceived.remote_command_duration
    /\ perceived.duration = 0

\* C18: levels in 1..9 are accepted and returned; every other integer makes
\* parsing fail with the range message naming a field whose level is outside
\* 1..9 and that level.
C18_RangeMessageForEveryInteger ==
    cfg.pc = "parsed" =>
        IF cfg.push \in 1..9 /\ cfg.pull \in 1..9
        THEN /\ cfg.result.ok
             /\ cfg.result.push = cfg.push
             /\ cfg.result.pull = cfg.pull
        ELSE /\ ~ cfg.result.ok
             /\ cfg.result.message = "range"
             /\ \/ /\ cfg.result.field = "push"
                   /\ cfg.push \notin 1..9
                   /\ cfg.result.value = cfg.push
                \/ /\ cfg.result.field = "pull"
                   /\ cfg.pull \notin 1..9
                   /\ cfg.result.value = cfg.pull

\* C12: a call whose process could not be launched, or could not be waited
\* on, returns Err with the generic message.
C12_LaunchFailureIsErr ==
    /\ (exec.pc \notin {"idle", "spawn"} /\ ~ exec.launch) =>
          /\ exec.pc = "returned"
          /\ ~ exec.result.ok
          /\ exec.result.message = "Generic rsync error."
    /\ (exec.pc = "returned" /\ ~ exec.waitOk) =>
          /\ ~ exec.result.ok
          /\ exec.result.message = "Generic rsync error."

\* C17: exit code 0 yields Ok; a nonzero exit code yields Err whose message
\* carries the exit code and all the delegate wrote to stdout and stderr,
\* the same chunks that were logged.
C17_MessageEmbedsOutput ==
    (exec.pc = "returned" /\ exec.waitOk /\ ~ exec.signalled) =>
        IF exec.code = 0
        THEN exec.result.ok
        ELSE /\ ~ exec.result.ok
             /\ exec.result.exit_code = exec.code
             /\ exec.result.stdout = exec.nOut
             /\ exec.result.stdout = exec.loggedOut
             /\ exec.result.stderr = exec.nErr
             /\ exec.result.stderr = exec.loggedErr

\* C19: while the executor streams or waits, the delegate or the executor
\* can always take a step: every chunk written is read and the exit is seen.
C19_NoDeadlock ==
    /\ exec.pc \in {"copy_out", "copy_err", "wait"} => ENABLED ExecProgress
    /\ exec.pc \in {"wait", "returned"} =>
          /\ exec.loggedOut = exec.nOut
          /\ exec.loggedErr = exec.nErr

\* C22: in Parallel mode a Disconnected answer ends the loop with no
\* further _pull (one call per check made, all Ok, nothing sent); an Empty
\* answer leads to the pause, and every check follows a fresh _pull that
\* returned Ok.
C22_GoneEndsEmptyRepeats ==
    mode = "Parallel" =>
        /\ signal = "Disconnected" =>
              /\ pullPc \in {"ending", "done"}
              /\ Len(pulls) = emptyChecks + 1
              /\ AllPullsOk
              /\ pull_finished = << >>
        /\ pullPc = "p_sleep" => signal = "Empty" /\ Len(pulls) = emptyChecks
        /\ pullPc = "p_pull" => Len(pulls) = emptyChecks
        /\ pullPc = "p_check" =>
              Len(pulls) = emptyChecks + 1 /\ LastPull.result = "Ok"

\* C22 witness: the loop paused twice and then ended on Disconnected.
C22_Witness ==
    /\ mode = "Parallel"
    /\ signal = "Disconnected"
    /\ pullPc = "done"
    /\ emptyChecks = 2
    /\ Len(pulls) = 3

\* The positions in the log of the final report.
Reports == { i \in 1..Len(log) : log[i] \in {"Success", "Failure"} }

\* C23: a run past the push that has ended reported Success or Failure
\* exactly once, as the last thing logged and with both results received,
\* the remote command result first; Pulling is logged with the remote
\* command result and before the pull result.
C23_ReportedOnceInOrder ==
    /\ Cardinality(Reports) <= 1
    /\ RunEnded => Cardinality(Reports) = 1
    /\ \A i \in Reports :
          /\ i = Len(log)
          /\ remote_command_result \in Outcomes
          /\ pull_result \in Outcomes
    /\ pull_result \in Outcomes => remote_command_result \in Outcomes
    /\ remote_command_result \in Outcomes <=>
          \E i \in 1..Len(log) : log[i] = "Pulling"
    /\ \A i, j \in 1..Len(log) :
          /\ (log[i] \in {"ExecDone", "ExecFailed"} /\ log[j] = "Pulling") =>
                i < j
          /\ (log[i] = "Pulling" /\ log[j] \in {"PullDone", "PullFailed"}) =>
                i < j

\* C24: in Parallel mode the first _pull is made before any result was
\* taken, and the pull thread can always step unless a _pull runs or it
\* sleeps: it never waits in a blocking recv.
C24_FirstPullDoesNotWait ==
    mode = "Parallel" =>
        /\ pullPc \notin {"s_recv", "s_pull", "s_pulling"}
        /\ Len(pulls) > 0 =>
              pulls[1].kind = "periodic" /\ ~ pulls[1].afterSignal
        /\ (Alive /\ pullPc \in {"p_pull", "f_pull", "ending"}) =>
              ENABLED PullStep
        /\ (Alive /\ pullPc = "p_check" /\ emptyChecks < MaxEmpty) =>
              ENABLED TryRecv
        /\ pullPc = "p_sleep" => lastTry.answer = "Empty"

\* C24 witness: the first _pull and the remote command both run.
C24_Witness ==
    /\ mode = "Parallel"
    /\ pullPc = "p_pulling"
    /\ Len(pulls) = 1
    /\ LastPull.result = "Running"
    /\ LastPull.rcRunning
    /\ rcPc = "running"

\* C25: in Parallel mode, when the loop has ended with every _pull Ok and
\* the result broadcast, the number of _pull calls is the number of Empty
\* answers plus 2, so at least 2.
C25_PullsAreChecksPlusTwo ==
    ( /\ mode = "Parallel"
      /\ pullPc \in {"ending", "done"}
      /\ AllPullsOk
      /\ busTail = 1 ) =>
        /\ Len(pulls) = emptyChecks + 2
        /\ Len(pulls) >= 2

\* C25 witness: the result was there at the first check; two pulls made.
C25_Witness ==
    /\ mode = "Parallel"
    /\ pullPc = "done"
    /\ AllPullsOk
    /\ busTail = 1
    /\ emptyChecks = 0
    /\ Len(pulls) = 2

C27_MainNeverStuckOnEndedWorkers ==
    /\ ( /\ Alive
         /\ rcPc \in {"done", "panicked"}
         /\ pullPc \in {"done", "panicked"} ) =>
          /\ mainPc = "recv_remote" => ENABLED MainRecvRemote
          /\ mainPc = "recv_pull" => ENABLED MainRecvPull
    /\ (exitCode = 0 \/ \E i \in 1..Len(log) : log[i] = "Success") =>
          remote_command_result = "Ok" /\ pull_result = "Ok"

\* C27 witness: the Parallel loop ended on Disconnected without sending,
\* the producer had panicked, and main's receive ended with an error.
C27_Witness ==
    /\ mainPc = "exited"
    /\ exitCode = 101
    /\ rcPc = "panicked"
    /\ pullPc = "done"
    /\ signal = "Disconnected"
    /\ pull_finished = << >>

\* C21: what the Parallel loop has sent when it ends: after the final
\* _pull, Ok or Err, a result whose duration is the time since start_time
\* minus the duration in the broadcast result, or 0 if that is negative;
\* after a failed periodic _pull, an Err with that call's own duration and
\* message.
C21_FinalCarriesPerceived ==
    (timed.pc = "done" /\ timed.sent # << >>) =>
        /\ Len(timed.sent) = 1
        /\ IF timed.kind = "final"
           THEN /\ timed.published
                /\ timed.sent[1].duration =
                      Max(0, (timed.now - timed.start_time)
                                - timed.rcDuration)
                /\ ~ timed.sent[1].ok =>
                      timed.sent[1].message = timed.attempts
           ELSE /\ ~ timed.sent[1].ok
                /\ timed.sent[1].duration = timed.now - timed.pull_start
                /\ timed.sent[1].message = timed.attempts

\* C21 witness: a failed final _pull was sent with a perceived duration that
\* is neither 0, nor the time since start_time, nor the call's own duration.
C21_Witness ==
    /\ timed.pc = "done"
    /\ timed.kind = "final"
    /\ timed.sent # << >>
    /\ ~ timed.sent[1].ok
    /\ timed.rcOut = "Err"
    /\ timed.rcDuration > 0
    /\ timed.sent[1].duration > 0
    /\ timed.sent[1].duration # timed.now - timed.pull_start

====
